---- MODULE Spec2Model ----
(***************************************************************************)
(* Rollover calculation engine of the budget helper add-in:                *)
(*   rollover.ts        getRollover, updateRollover, resetRollover         *)
(*   budget-history.ts  the budget-history resolver                        *)
(*   lookups.ts         the table reads and setLastUpdateDate              *)
(*   excel-helpers.ts   TableRows$, AddToTable, WriteToTable,              *)
(*                      UpdateTableRow(s)                                  *)
(* A table is a sequence of rows, a row a tuple of cells in header order;  *)
(* TableRows$ turns each row into an object keyed by the header strings.   *)
(* Row indexes are 0-based as in the code: row i of a table is element     *)
(* i + 1 of the sequence.                                                  *)
(***************************************************************************)
EXTENDS Integers, Sequences, FiniteSets, TLC

(***************************************************************************)
(* Bounds of the model                                                     *)
(***************************************************************************)
\* number of operations (resetRollover, getRollover, updateRollover) begun
MaxOps == 2

(***************************************************************************)
(* Program constants                                                       *)
(***************************************************************************)
\* let loopLimit = 24
LoopLimitStart == 24

RolloverHeaders == <<"Month", "Year", "Expense", "Expenses", "BOM", "EOM">>
\* the Transactions columns the engine reads; the category column is
\* 'Expense Type' (lookups.ts getTransactions, resetRollover's transactionMap)
TransactionHeaders == <<"Month", "Year", "Expense Type", "Amount">>
ExpenseDataHeaders == <<"Expense Type", "Budget", "Init">>
BudgetHistoryHeaders ==
    <<"Expense", "Month Start", "Year Start", "Month End", "Year End", "Amount">>

\* the value of a property an object does not have
Undefined == "undefined"
\* the category argument `null` (expense: string | null = null)
NullExpense == "null"

(***************************************************************************)
(* Cells whose type the code does not fix (number | string): a number, a   *)
(* string that parseFloat reads as the number n, or any other text.        *)
(***************************************************************************)
Num(n) == [t |-> "number", n |-> n]
NumStr(n) == [t |-> "numeric string", n |-> n]
Text == [t |-> "text", n |-> 0]

(***************************************************************************)
(* excel-helpers.ts                                                        *)
(***************************************************************************)
Range(s) == {s[i] : i \in DOMAIN s}

Min(S) == CHOOSE x \in S : \A z \in S : x <= z
Max(S) == CHOOSE x \in S : \A z \in S : x >= z

\* headers.reduce((obj, header, index) => { obj[header] = row[index] ... })
RowObject(headers, row) ==
    [h \in Range(headers) |->
        row[Max({i \in DOMAIN headers : headers[i] = h})]]

\* TableRows$(tableName): one object per data row, in row order
TableRows(headers, rows) == [i \in DOMAIN rows |-> RowObject(headers, rows[i])]

\* obj[field], undefined when the object has no such property
Get(obj, field) == IF field \in DOMAIN obj THEN obj[field] ELSE Undefined

\* headers.values[0].map(header => data[header] ?? null)
UpdatedValues(headers, data) == [i \in DOMAIN headers |-> data[headers[i]]]

\* UpdateTableRows: rowRange(update.rowIndex).values = [updatedValues], in order
RECURSIVE ApplyUpdates(_, _)
ApplyUpdates(rows, ups) ==
    IF ups = <<>> THEN rows
    ELSE ApplyUpdates(
            [rows EXCEPT ![Head(ups).rowIndex + 1] =
                UpdatedValues(RolloverHeaders, Head(ups).data)],
            Tail(ups))

\* Object.values(data) of a RolloverEntry literal: its fields in creation order
ObjectValues(e) == <<e.Month, e.Year, e.Expense, e.Expenses, e.BOM, e.EOM>>

(***************************************************************************)
(* budget-history.ts                                                       *)
(* A nullable number is [isNull |-> BOOLEAN, n |-> Int].                   *)
(***************************************************************************)
Null == [isNull |-> TRUE, n |-> 0]
Some(n) == [isNull |-> FALSE, n |-> n]

toNumber(value) == IF value.t = "text" THEN Null ELSE Some(value.n)

toMonthIndex_Unchecked(month, year) == Some((year * 12) + (month - 1))
toMonthIndex(month, year) ==
    IF month < 1 \/ month > 12 THEN Null
    ELSE Some((year * 12) + (month - 1))

getRangeIndices(row) ==
    LET monthStart == toNumber(row["Month Start"])
        yearStart == toNumber(row["Year Start"])
        monthEnd == toNumber(row["Month End"])
        yearEnd == toNumber(row["Year End"])
    IN  IF monthStart.isNull \/ yearStart.isNull \/ monthEnd.isNull \/ yearEnd.isNull
        THEN [isNull |-> TRUE, startIndex |-> 0, endIndex |-> 0]
        ELSE LET startIndex == toMonthIndex(monthStart.n, yearStart.n)
                 endIndex == toMonthIndex(monthEnd.n, yearEnd.n)
             IN  IF startIndex.isNull \/ endIndex.isNull
                 THEN [isNull |-> TRUE, startIndex |-> 0, endIndex |-> 0]
                 ELSE [isNull |-> FALSE, startIndex |-> startIndex.n,
                       endIndex |-> endIndex.n]

\* does this history row match (expense, targetIndex)?
HistoryRowMatches(row, expense, targetIndex) ==
    /\ row["Expense"] = expense
    /\ ~getRangeIndices(row).isNull
    /\ getRangeIndices(row).startIndex <= targetIndex
    /\ targetIndex <= getRangeIndices(row).endIndex

\* the matches, in history order, as positions into history
getBudgetHistoryMatches(history, expense, month, year) ==
    LET targetIndex == toMonthIndex(month, year)
    IN  IF targetIndex.isNull THEN <<>>
        ELSE SelectSeq([i \in DOMAIN history |-> i],
                LAMBDA i : HistoryRowMatches(history[i], expense, targetIndex.n))

\* matches.sort((a, b) => b.startIndex - a.startIndex): a stable sort, so
\* matches[0] is the earliest match in history order with the greatest start
SortedFirst_Unsorted(history, matches) == matches[1]
SortedFirst(history, matches) ==
    LET best == Max({getRangeIndices(history[matches[j]]).startIndex :
                        j \in DOMAIN matches})
    IN  matches[Min({j \in DOMAIN matches :
                        getRangeIndices(history[matches[j]]).startIndex = best})]

\* the whole of the sorted array: greatest start first, equal starts in
\* history order
RECURSIVE SortMatches(_, _)
SortMatches(history, matches) ==
    IF matches = <<>> THEN <<>>
    ELSE LET first == SortedFirst(history, matches)
         IN  <<first>> \o SortMatches(history,
                              SelectSeq(matches, LAMBDA i : i # first))

\* entry: position of the selected entry in history, 0 for null;
\* matches: matches.map(match => match.entry) of the sorted array
selectBudgetHistoryEntry(history, expense, month, year) ==
    LET matches == getBudgetHistoryMatches(history, expense, month, year)
    IN  IF Len(matches) = 0 THEN [entry |-> 0, matches |-> <<>>]
        ELSE [entry |-> SortedFirst(history, matches),
              matches |-> SortMatches(history, matches)]

parseBudgetAmount(value) ==
    LET parsed == toNumber(value)
    IN  IF parsed.isNull THEN 0 ELSE parsed.n

(***************************************************************************)
(* State                                                                   *)
(***************************************************************************)
VARIABLES
    rollovers,      \* table Rollovers: rows in RolloverHeaders order
    transactions,   \* table Transactions: rows in TransactionHeaders order
    expenseData,    \* table ExpenseData: rows in ExpenseDataHeaders order
    budgetHistory,  \* table BudgetHistory: rows in BudgetHistoryHeaders order
    today,          \* new Date(): [month, year]
    lastUpdate,     \* number of setLastUpdateDate calls so far
    pendingWrites,  \* WriteToTable calls started and not awaited, in flight
    pc,             \* position of the running operation, "idle" when none
    op,             \* the running call: [name, month, year, expense, entry]
    expenses,       \* resetRollover: let expenses
    ei,             \* resetRollover: position of the for loop in expenses
    month,          \* resetRollover: let month
    year,           \* resetRollover: let year
    loopLimit,      \* resetRollover: let loopLimit
    rolloverMap,    \* resetRollover: key -> [entry, index]
    updates,        \* resetRollover: updates
    newEntries,     \* resetRollover: newEntries
    rowIndex,       \* updateRollover: const rowIndex
    outcome,        \* how the call ended: "none", "resolved", "rejected"
    error,          \* the error a rejected call carries
    result,         \* the value a resolved getRollover carries
    io,             \* storage calls issued by the running operation, in order
    console,        \* console.error / console.warn messages of the operation
    storeAtCall,    \* the Rollovers rows when the operation was called
    landed,         \* rows in-flight writes added during this operation
    prevRun,        \* the last resetRollover that completed: its arguments
    ops,            \* operations begun
    ownWrite,       \* the operation's un-awaited WriteToTable: "none",
                    \* "in flight", "landed" or "failed"
    failed          \* storage calls of the operation that failed, in order

vars == <<rollovers, transactions, expenseData, budgetHistory, today, lastUpdate,
          pendingWrites, pc, op, expenses, ei, month, year, loopLimit,
          rolloverMap, updates, newEntries, rowIndex, outcome, error, result,
          io, console, storeAtCall, landed, prevRun, ops, ownWrite, failed>>

data == <<transactions, expenseData, budgetHistory, today>>
locals == <<expenses, ei, month, year, loopLimit, rolloverMap, updates,
            newEntries, rowIndex>>

(***************************************************************************)
(* The workbooks and the arguments the model draws from                    *)
(***************************************************************************)
Categories == {"A", "B"}

TodaySet == {[month |-> 2, year |-> 2023]}

StartSet == {<<12, 2022>>, <<1, 2023>>, <<3, 2023>>}

RolloversSet ==
    { <<>>,
      << <<12, 2022, "A", 0, 0, 5>>, <<12, 2022, "B", 0, 0, 7>> >>,
      << <<12, 2022, "A", 0, 0, 5>>, <<1, 2023, "A", 9, 9, 9>>,
         <<3, 2023, "A", 1, 1, 1>> >>,
      << <<11, 2022, "A", 0, 0, 4>>, <<1, 2023, "B", 0, 2, 2>>,
         <<1, 2023, "B", 0, 3, 3>> >> }

FullTransactions ==
      << <<1, 2023, "A", -3>>, <<1, 2023, "A", -1>>, <<2, 2023, "A", -2>>,
         <<1, 2023, "B", -1>>, <<12, 2022, "A", -4>>, <<1, 2022, "A", -8>> >>

FullExpenseData ==
      << <<"A", Num(10), Num(1)>>, <<"B", NumStr(20), Num(0)>> >>

FullBudgetHistory ==
      << <<"B", Num(13), Num(2022), Num(2), Num(2023), Num(40)>>,
         <<"A", Num(1), Num(2023), Num(3), Num(2023), Num(25)>>,
         <<"A", Num(2), Num(2023), NumStr(2), Num(2023), Num(30)>>,
         <<"B", Num(11), Num(2022), Num(1), Num(2023), NumStr(15)>>,
         <<"B", Num(2), Num(2023), Text, Num(2023), Num(50)>> >>

\* <<Transactions, ExpenseData, BudgetHistory>> of a workbook
DataSet ==
    { <<FullTransactions, FullExpenseData, FullBudgetHistory>>,
      <<FullTransactions, FullExpenseData, <<>>>>,
      <<FullTransactions, <<>>, <<>>>> }

\* the keys getRollover is asked for
GetSet == {<<1, 2023, "A">>, <<1, 2023, "B">>}

\* the records updateRollover is given
UpdateSet ==
    { [Month |-> 1, Year |-> 2023, Expense |-> "B", Expenses |-> 0,
       BOM |-> 6, EOM |-> 8],
      [Month |-> 12, Year |-> 2022, Expense |-> "A", Expenses |-> -1,
       BOM |-> 2, EOM |-> 3] }

NoEntry == [Month |-> 0, Year |-> 0, Expense |-> "", Expenses |-> 0,
            BOM |-> 0, EOM |-> 0]
NoOp == [name |-> "none", month |-> 0, year |-> 0, expense |-> NullExpense,
         entry |-> NoEntry]
NoRun == [valid |-> FALSE, month |-> 0, year |-> 0, expense |-> NullExpense]

\* a workbook of `stores` x `books` on which no operation has been called
InitOf(stores, books) ==
    /\ rollovers \in stores
    /\ \E d \in books :
          /\ transactions = d[1]
          /\ expenseData = d[2]
          /\ budgetHistory = d[3]
    /\ today \in TodaySet
    /\ lastUpdate = 0
    /\ pendingWrites = <<>>
    /\ pc = "idle"
    /\ op = NoOp
    /\ expenses = <<>>
    /\ ei = 0
    /\ month = 0
    /\ year = 0
    /\ loopLimit = 0
    /\ rolloverMap = <<>>
    /\ updates = <<>>
    /\ newEntries = <<>>
    /\ rowIndex = -1
    /\ outcome = "none"
    /\ error = ""
    /\ result = NoEntry
    /\ io = <<>>
    /\ console = <<>>
    /\ storeAtCall = rollovers
    /\ landed = <<>>
    /\ prevRun = NoRun
    /\ ops = 0
    /\ ownWrite = "none"
    /\ failed = <<>>

Init == InitOf(RolloversSet, DataSet)

(***************************************************************************)
(* lookups.ts: the reads                                                   *)
(***************************************************************************)
\* Array.from(new Set(cleaned)): order kept, later duplicates dropped
RECURSIVE Unique(_)
Unique(s) ==
    IF s = <<>> THEN <<>>
    ELSE LET init == Unique(SubSeq(s, 1, Len(s) - 1))
             last == s[Len(s)]
         IN  IF last \in Range(init) THEN init ELSE Append(init, last)

\* getExpenseList: the 'Expense Type' column, trimmed, non-empty, de-duplicated
getExpenseList(rows) ==
    LET values == [i \in DOMAIN rows |->
                      TableRows(ExpenseDataHeaders, rows)[i]["Expense Type"]]
    IN  Unique(SelectSeq(values, LAMBDA v : v # ""))

(***************************************************************************)
(* rollover.ts: resetRollover                                              *)
(***************************************************************************)
Key_NoCategory(m, y, e) == <<m, y>>
\* `${month}-${year}-${expense}`: month and year are printed in decimal, so
\* two keys are equal exactly when the three parts are
Key(m, y, e) == <<m, y, e>>

BuildRolloverMap_Empty(allRollovers) == <<>>

BuildRolloverMap_OneBased(allRollovers) ==
    LET keys == {Key(allRollovers[i].Month, allRollovers[i].Year,
                     allRollovers[i].Expense) : i \in DOMAIN allRollovers}
    IN  [k \in keys |->
            LET i == Max({j \in DOMAIN allRollovers :
                            Key(allRollovers[j].Month, allRollovers[j].Year,
                                allRollovers[j].Expense) = k})
            IN  [entry |-> allRollovers[i], index |-> i]]

\* allRollovers.forEach((entry, index) => rolloverMap.set(key, {entry, index}))
\* a later row with the same key replaces an earlier one
BuildRolloverMap(allRollovers) ==
    LET keys == {Key(allRollovers[i].Month, allRollovers[i].Year,
                     allRollovers[i].Expense) : i \in DOMAIN allRollovers}
    IN  [k \in keys |->
            LET i == Max({j \in DOMAIN allRollovers :
                            Key(allRollovers[j].Month, allRollovers[j].Year,
                                allRollovers[j].Expense) = k})
            IN  [entry |-> allRollovers[i], index |-> i - 1]]

RECURSIVE TransactionTotal_AnyYear(_, _)
TransactionTotal_AnyYear(allTransactions, key) ==
    IF allTransactions = <<>> THEN 0
    ELSE LET t == Head(allTransactions)
             rest == TransactionTotal_AnyYear(Tail(allTransactions), key)
         IN  IF Key(Get(t, "Month"), key[2], Get(t, "Expense Type")) = key
             THEN t["Amount"] + rest
             ELSE rest

\* transactionMap.get(key)?.total || 0
RECURSIVE TransactionTotal(_, _)
TransactionTotal(allTransactions, key) ==
    IF allTransactions = <<>> THEN 0
    ELSE LET t == Head(allTransactions)
             rest == TransactionTotal(Tail(allTransactions), key)
         IN  IF Key(Get(t, "Month"), Get(t, "Year"), Get(t, "Expense Type")) = key
             THEN t["Amount"] + rest
             ELSE rest

\* parseFloat(cell || 0): NaN is Null
ParseFloatOrZero(cell) == IF cell.t = "text" THEN Null ELSE Some(cell.n)

\* expenseDataMap.get(expense)?.[field] || 0; a later row replaces an earlier
ExpenseDataField(rows, expense, field) ==
    LET objs == TableRows(ExpenseDataHeaders, rows)
        hits == {i \in DOMAIN objs : objs[i]["Expense Type"] = expense}
    IN  IF hits = {} THEN 0
        ELSE LET v == ParseFloatOrZero(objs[Max(hits)][field])
             IN  IF v.isNull THEN 0 ELSE v.n

getBudgetInMemory(expense, m, y) ==
    LET history == TableRows(BudgetHistoryHeaders, budgetHistory)
        sel == selectBudgetHistoryEntry(history, expense, m, y)
    IN  IF sel.entry # 0 THEN parseBudgetAmount(history[sel.entry]["Amount"])
        ELSE ExpenseDataField(expenseData, expense, "Budget")

getInitialAmountInMemory(expense) == ExpenseDataField(expenseData, expense, "Init")

\* today.getMonth(): 0 for January
getMonth == today.month - 1

\* let todaysMonth = today.getMonth() + 1
todaysMonth_OffByOne == getMonth + 2
todaysMonth == getMonth + 1

\* let todaysYear = today.getFullYear()
todaysYear == today.year

\* year > todaysYear || (year === todaysYear && month > todaysMonth)
IsFuture(m, y) == y > todaysYear \/ (y = todaysYear /\ m > todaysMonth)

\* year < todaysYear || (year === todaysYear && month <= todaysMonth)
NotAfterToday_Always(m, y) == TRUE
NotAfterToday_Strict(m, y) ==
    y < todaysYear \/ (y = todaysYear /\ m < todaysMonth)
NotAfterToday(m, y) == y < todaysYear \/ (y = todaysYear /\ m <= todaysMonth)

\* if (currentRolloverData) currentRolloverData.entry = rolloverEntry
\* else rolloverMap.set(key, { entry: rolloverEntry, index: -1 })
FeedForward_Dropped(map, key, rolloverEntry) == map
FeedForward(map, key, rolloverEntry) ==
    IF key \in DOMAIN map
    THEN [map EXCEPT ![key].entry = rolloverEntry]
    ELSE (key :> [entry |-> rolloverEntry, index |-> -1]) @@ map

\* if (expense) { expenses = [expense] }
ExpensesFor_All(expense) == getExpenseList(expenseData)
ExpensesFor(expense) == <<expense>>

\* rolloverEntry.EOM = rolloverEntry.BOM + budget + totalAmount
ComputeEOM_Subtract(bom, budget, totalAmount) == bom + budget - totalAmount
ComputeEOM(bom, budget, totalAmount) == bom + budget + totalAmount

\* the record one step of the walk computes for (expense, month, year)
StepEntry(map, expense, m, y) ==
    LET key == Key(m, y, expense)
        budget == getBudgetInMemory(expense, m, y)
        previousMonth == IF m - 1 = 0 THEN 12 ELSE m - 1
        previousYear == IF m - 1 = 0 THEN y - 1 ELSE y
        prevKey == Key(previousMonth, previousYear, expense)
        prevEOM == IF prevKey \in DOMAIN map THEN map[prevKey].entry.EOM
                   ELSE getInitialAmountInMemory(expense)
        totalAmount == TransactionTotal(
                          TableRows(TransactionHeaders, transactions), key)
        rolloverEntry == IF key \in DOMAIN map THEN map[key].entry
                         ELSE [Month |-> m, Year |-> y, Expense |-> expense,
                               Expenses |-> 0, BOM |-> 0, EOM |-> 0]
    IN  [rolloverEntry EXCEPT !.Expenses = totalAmount,
                              !.BOM = prevEOM,
                              !.EOM = ComputeEOM(prevEOM, budget, totalAmount)]

\* a caller starts resetRollover(startingMonth, startingYear, expense)
RRCall(m, y, e) ==
    /\ pc = "idle"
    /\ ops < MaxOps
    /\ ops' = ops + 1
    /\ op' = [name |-> "resetRollover", month |-> m, year |-> y, expense |-> e,
              entry |-> NoEntry]
    /\ expenses' = IF e # NullExpense THEN ExpensesFor(e) ELSE <<>>
    /\ pc' = IF e # NullExpense THEN "rr_fetch" ELSE "rr_list"
    /\ storeAtCall' = rollovers
    /\ landed' = <<>>
    /\ outcome' = "none"
    /\ error' = ""
    /\ io' = <<>>
    /\ ownWrite' = "none"
    /\ failed' = <<>>
    /\ console' = <<>>
    /\ UNCHANGED <<rollovers, data, lastUpdate, pendingWrites, ei, month,
                   year, loopLimit, rolloverMap, updates, newEntries,
                   rowIndex, result, prevRun>>

\* the call ends rejected with err
Reject_Swallowed(err) ==
    /\ pc' = "done"
    /\ outcome' = "resolved"
    /\ error' = ""
Reject(err) ==
    /\ pc' = "done"
    /\ outcome' = "rejected"
    /\ error' = err

\* the storage call fails and its error rejects the call
Fail_ThenStamp(call) ==
    /\ failed' = Append(failed, call)
    /\ pc' = "rr_stamp"
    /\ UNCHANGED <<outcome, error>>
Fail(call) ==
    /\ Reject(call)
    /\ failed' = Append(failed, call)

\* expenses = await getExpenseList(): TableRows$('ExpenseData'), and on its
\* error NamedRangeValues$('Expenses'), the named range over the same column
RRList ==
    /\ pc = "rr_list"
    /\ \/ /\ io' = Append(io, "read ExpenseData")
          /\ expenses' = getExpenseList(expenseData)
          /\ pc' = "rr_fetch"
          /\ UNCHANGED <<outcome, error, failed>>
       \/ /\ io' = io \o <<"read ExpenseData", "read Expenses">>
          /\ expenses' = getExpenseList(expenseData)
          /\ pc' = "rr_fetch"
          /\ UNCHANGED <<outcome, error, failed>>
       \/ /\ io' = io \o <<"read ExpenseData", "read Expenses">>
          /\ Fail("read Expenses")
          /\ UNCHANGED expenses
    /\ UNCHANGED <<rollovers, data, lastUpdate, pendingWrites, op, ei, month,
                   year, loopLimit, rolloverMap, updates, newEntries,
                   rowIndex, result, console, storeAtCall, landed, prevRun,
                   ops, ownWrite>>

BulkReads_Repeated ==
    <<"read Rollovers", "read Transactions", "read ExpenseData",
      "read BudgetHistory", "read Transactions">>
BulkReads == <<"read Rollovers", "read Transactions", "read ExpenseData",
               "read BudgetHistory">>

\* await Promise.all([getRollovers(), getAllTransactions(),
\*                    getAllExpenseData(), getAllBudgetHistory()])
\* all four reads are started; the first rejection rejects the call
RRFetch ==
    /\ pc = "rr_fetch"
    /\ io' = io \o BulkReads
    /\ \/ /\ rolloverMap' = BuildRolloverMap(TableRows(RolloverHeaders, rollovers))
          /\ updates' = <<>>
          /\ newEntries' = <<>>
          /\ ei' = 1
          /\ pc' = "rr_for"
          /\ UNCHANGED <<outcome, error, failed>>
       \/ /\ \E r \in Range(BulkReads) : Fail(r)
          /\ UNCHANGED <<rolloverMap, updates, newEntries, ei>>
    /\ UNCHANGED <<rollovers, data, lastUpdate, pendingWrites, op, expenses,
                   month, year, loopLimit, rowIndex, result, console,
                   storeAtCall, landed, prevRun, ops, ownWrite>>

\* for (const expense of expenses) { loopLimit = 24; month = ...; year = ...;
\*     if (future) { console.error(...); return; }
RRFor ==
    /\ pc = "rr_for"
    /\ IF ei > Len(expenses)
       THEN /\ pc' = "rr_update"
            /\ UNCHANGED <<loopLimit, month, year, console, outcome>>
       ELSE /\ loopLimit' = LoopLimitStart
            /\ month' = op.month
            /\ year' = op.year
            /\ IF IsFuture(op.month, op.year)
               THEN /\ console' = Append(console,
                                    "Cannot reset rollover for a future date.")
                    /\ pc' = "done"
                    /\ outcome' = "resolved"
               ELSE /\ pc' = "rr_while"
                    /\ UNCHANGED <<console, outcome>>
    /\ UNCHANGED <<rollovers, data, lastUpdate, pendingWrites, op, expenses,
                   ei, rolloverMap, updates, newEntries, rowIndex, error,
                   result, io, storeAtCall, landed, prevRun, ops, failed,
                   ownWrite>>

WithinLimit_Unbounded(limit) == TRUE
\* while (... && loopLimit > 0)
WithinLimit(limit) == limit > 0

\* one evaluation of the while condition and, when it holds, one loop body
RRWhile ==
    /\ pc = "rr_while"
    /\ IF NotAfterToday(month, year) /\ WithinLimit(loopLimit)
       THEN LET expense == expenses[ei]
                key == Key(month, year, expense)
                rolloverEntry == StepEntry(rolloverMap, expense, month, year)
            IN  /\ rolloverMap' = FeedForward(rolloverMap, key, rolloverEntry)
                /\ IF key \in DOMAIN rolloverMap
                   THEN /\ updates' = Append(updates,
                              [rowIndex |-> rolloverMap[key].index,
                               data |-> rolloverEntry])
                        /\ UNCHANGED newEntries
                   ELSE /\ newEntries' = Append(newEntries, rolloverEntry)
                        /\ UNCHANGED updates
                /\ month' = IF month + 1 = 13 THEN 1 ELSE month + 1
                /\ year' = IF month + 1 = 13 THEN year + 1 ELSE year
                /\ loopLimit' = loopLimit - 1
                /\ UNCHANGED <<ei, pc>>
       ELSE /\ ei' = ei + 1
            /\ pc' = "rr_for"
            /\ UNCHANGED <<rolloverMap, updates, newEntries, month, year,
                           loopLimit>>
    /\ UNCHANGED <<rollovers, data, lastUpdate, pendingWrites, op, expenses,
                   rowIndex, outcome, error, result, io, console, storeAtCall,
                   landed, prevRun, ops, failed, ownWrite>>

\* updates.length > 0, newEntries.length > 0
HasQueued_Always(queue) == TRUE
HasQueued(queue) == Len(queue) > 0

\* if (updates.length > 0) await UpdateTableRows('Rollovers', updates)
\* one context.sync() carries all row writes: it lands whole or not at all
RRUpdate ==
    /\ pc = "rr_update"
    /\ IF HasQueued(updates)
       THEN /\ io' = Append(io, "update Rollovers")
            /\ \/ /\ \A i \in DOMAIN updates :
                        updates[i].rowIndex + 1 \in DOMAIN rollovers
                  /\ rollovers' = ApplyUpdates(rollovers, updates)
                  /\ pc' = "rr_insert"
                  /\ UNCHANGED <<outcome, error, failed>>
               \/ /\ Fail("update Rollovers")
                  /\ UNCHANGED rollovers
       ELSE /\ pc' = "rr_insert"
            /\ UNCHANGED <<rollovers, io, outcome, error, failed>>
    /\ UNCHANGED <<data, lastUpdate, pendingWrites, op, locals, result,
                   console, storeAtCall, landed, prevRun, ops, ownWrite>>

\* rows = newEntries.map(e => [e.Month, e.Year, e.Expense, e.Expenses, e.BOM, e.EOM])
EntryRows(entries) ==
    [i \in DOMAIN entries |->
        <<entries[i].Month, entries[i].Year, entries[i].Expense,
          entries[i].Expenses, entries[i].BOM, entries[i].EOM>>]

\* if (newEntries.length > 0) await WriteToTable('Rollovers', rows)
RRInsert ==
    /\ pc = "rr_insert"
    /\ IF HasQueued(newEntries)
       THEN /\ io' = Append(io, "insert Rollovers")
            /\ \/ /\ rollovers' = rollovers \o EntryRows(newEntries)
                  /\ pc' = "rr_stamp"
                  /\ UNCHANGED <<outcome, error, failed>>
               \/ /\ Fail("insert Rollovers")
                  /\ UNCHANGED rollovers
       ELSE /\ pc' = "rr_stamp"
            /\ UNCHANGED <<rollovers, io, outcome, error, failed>>
    /\ UNCHANGED <<data, lastUpdate, pendingWrites, op, locals, result,
                   console, storeAtCall, landed, prevRun, ops, ownWrite>>

\* await setLastUpdateDate(new Date()): it catches every error of its own
RRStamp ==
    /\ pc = "rr_stamp"
    /\ io' = Append(io, "set LastRolloverUpdate")
    /\ lastUpdate' = lastUpdate + 1
    /\ pc' = "done"
    /\ outcome' = "resolved"
    /\ UNCHANGED <<rollovers, data, pendingWrites, op, locals, error, result,
                   console, storeAtCall, landed, prevRun, ops, failed,
                   ownWrite>>

(***************************************************************************)
(* rollover.ts: getRollover                                                *)
(***************************************************************************)
\* filter(Month === month && Year === year), filter(Expense === expense), toArray()
MatchingRollovers(allRollovers, m, y, e) ==
    SelectSeq(allRollovers,
        LAMBDA r : Get(r, "Month") = m /\ Get(r, "Year") = y
                   /\ Get(r, "Expense") = e)

\* the field of a Transactions row object that getRollover filters on
GetRolloverTransactionField == "Expense"

\* TableRows$('Transactions').pipe(filter(Month, Year), filter(transaction.Expense
\* === expense), reduce((acc, transaction) => acc + transaction.Amount, 0))
RECURSIVE MonthlyExpenses(_, _, _, _)
MonthlyExpenses(allTransactions, m, y, e) ==
    IF allTransactions = <<>> THEN 0
    ELSE LET t == allTransactions[Len(allTransactions)]
             acc == MonthlyExpenses(
                       SubSeq(allTransactions, 1, Len(allTransactions) - 1),
                       m, y, e)
         IN  IF Get(t, "Month") = m /\ Get(t, "Year") = y
                /\ Get(t, GetRolloverTransactionField) = e
             THEN acc + t["Amount"]
             ELSE acc

\* lookups.ts getInitialAmount: parseFloat(values[0]) of the 'Init' cells of
\* the rows of the expense; NaN (Null) without such a row or for a text cell
getInitialAmount(rows, expense) ==
    LET objs == TableRows(ExpenseDataHeaders, rows)
        hits == {i \in DOMAIN objs : objs[i]["Expense Type"] = expense}
    IN  IF hits = {} THEN Null
        ELSE toNumber(objs[Min(hits)]["Init"])

\* callers pass a category that ExpenseData defines with a numeric Init; for
\* any other the new record's balances are NaN
HasInitialAmount(expense) == ~getInitialAmount(expenseData, expense).isNull

GRCall(m, y, e) ==
    /\ pc = "idle"
    /\ ops < MaxOps
    /\ HasInitialAmount(e)
    /\ ops' = ops + 1
    /\ op' = [name |-> "getRollover", month |-> m, year |-> y, expense |-> e,
              entry |-> NoEntry]
    /\ pc' = "gr_read"
    /\ storeAtCall' = rollovers
    /\ landed' = <<>>
    /\ outcome' = "none"
    /\ error' = ""
    /\ io' = <<>>
    /\ ownWrite' = "none"
    /\ failed' = <<>>
    /\ console' = <<>>
    /\ UNCHANGED <<rollovers, data, lastUpdate, pendingWrites, locals, result,
                   prevRun>>

\* return of(rows[0])
RowsFirst_Last(rows) == rows[Len(rows)]
RowsFirst(rows) == rows[1]

\* TableRows$('Rollovers') ... switchMap(rows => ...): one or more rows
\* resolve with rows[0]; none goes on to build a new entry
GRRead ==
    /\ pc = "gr_read"
    /\ io' = Append(io, "read Rollovers")
    /\ \/ LET rows == MatchingRollovers(TableRows(RolloverHeaders, rollovers),
                                        op.month, op.year, op.expense)
          IN  IF Len(rows) >= 1
              THEN /\ result' = RowsFirst(rows)
                   /\ console' = IF Len(rows) > 1
                                 THEN Append(console,
                                        "Unexpected multiple rollover entries")
                                 ELSE console
                   /\ pc' = "done"
                   /\ outcome' = "resolved"
                   /\ UNCHANGED <<error, failed>>
              ELSE /\ pc' = "gr_new"
                   /\ UNCHANGED <<result, console, outcome, error, failed>>
       \/ /\ Fail("read Rollovers")
          /\ UNCHANGED <<result, console>>
    /\ UNCHANGED <<rollovers, data, lastUpdate, pendingWrites, op, locals,
                   storeAtCall, landed, prevRun, ops, ownWrite>>

\* getBudget(expense, month, year) reads BudgetHistory and, without a
\* matching entry, ExpenseData
BudgetReads(e, m, y) ==
    IF selectBudgetHistoryEntry(TableRows(BudgetHistoryHeaders, budgetHistory),
                                e, m, y).entry # 0
    THEN <<"read BudgetHistory">>
    ELSE <<"read BudgetHistory", "read ExpenseData">>

\* lookups.ts getBudget(expense, month, year): with a month and a year
\* (month && year) the selected history entry's Amount, else the 'Budget'
\* cell of the first ExpenseData row of the expense;
\* resolve(parseBudgetAmount(values[0]))
getBudget(e, m, y) ==
    LET history == TableRows(BudgetHistoryHeaders, budgetHistory)
        sel == IF m # 0 /\ y # 0
               THEN selectBudgetHistoryEntry(history, e, m, y)
               ELSE [entry |-> 0, matches |-> <<>>]
        objs == TableRows(ExpenseDataHeaders, expenseData)
        hits == {i \in DOMAIN objs : objs[i]["Expense Type"] = e}
    IN  IF sel.entry # 0 THEN parseBudgetAmount(history[sel.entry]["Amount"])
        ELSE IF hits = {} THEN 0
        ELSE parseBudgetAmount(objs[Min(hits)]["Budget"])

\* const newEntry: RolloverEntry = { Month, Year, Expense, Expenses:
\* monthlyExpenses, BOM: initialAmount, EOM: initialAmount }
NewEntry_Chained(m, y, e, monthlyExpenses, initialAmount, budget) ==
    [Month |-> m, Year |-> y, Expense |-> e, Expenses |-> monthlyExpenses,
     BOM |-> initialAmount, EOM |-> initialAmount + budget + monthlyExpenses]
NewEntry(m, y, e, monthlyExpenses, initialAmount, budget) ==
    [Month |-> m, Year |-> y, Expense |-> e, Expenses |-> monthlyExpenses,
     BOM |-> initialAmount, EOM |-> initialAmount]

\* forkJoin([transactions$, initialAmount$, budget$]) then
\* from(AddToTable('Rollovers', newEntry)).pipe(map(() => newEntry))
\* AddToTable starts WriteToTable without awaiting it: the call resolves
\* while the write is in flight
GRNew ==
    /\ pc = "gr_new"
    /\ LET reads == <<"read Transactions", "read ExpenseData">>
                    \o BudgetReads(op.expense, op.month, op.year)
       IN  \/ LET monthlyExpenses ==
                      MonthlyExpenses(TableRows(TransactionHeaders, transactions),
                                      op.month, op.year, op.expense)
                  initialAmount == getInitialAmount(expenseData, op.expense).n
                  budget == getBudget(op.expense, op.month, op.year)
                  newEntry == NewEntry(op.month, op.year, op.expense,
                                       monthlyExpenses, initialAmount, budget)
              IN  /\ io' = (io \o reads) \o <<"insert Rollovers">>
                  /\ pendingWrites' =
                        Append(pendingWrites, <<ObjectValues(newEntry)>>)
                  /\ ownWrite' = "in flight"
                  /\ result' = newEntry
                  /\ pc' = "done"
                  /\ outcome' = "resolved"
                  /\ UNCHANGED <<error, failed>>
           \/ /\ io' = io \o reads
              /\ \E r \in Range(reads) : Fail(r)
              /\ UNCHANGED <<pendingWrites, result, ownWrite>>
    /\ UNCHANGED <<rollovers, data, lastUpdate, op, locals, console,
                   storeAtCall, landed, prevRun, ops>>

\* the write the running operation started is the last one in flight
OwnWriteIsNext == ownWrite = "in flight" /\ Len(pendingWrites) = 1

\* a WriteToTable in flight completes: the rows are added, or the write
\* fails (WriteToTable rethrows) and nobody awaits its rejection
ApplyPending ==
    /\ pendingWrites # <<>>
    /\ pendingWrites' = Tail(pendingWrites)
    /\ \/ /\ rollovers' = rollovers \o Head(pendingWrites)
          /\ landed' = landed \o Head(pendingWrites)
          /\ prevRun' = [prevRun EXCEPT !.valid = FALSE]
          /\ ownWrite' = IF OwnWriteIsNext THEN "landed" ELSE ownWrite
          /\ UNCHANGED failed
       \/ /\ ownWrite' = IF OwnWriteIsNext THEN "failed" ELSE ownWrite
          /\ failed' = IF OwnWriteIsNext
                       THEN Append(failed, "insert Rollovers")
                       ELSE failed
          /\ UNCHANGED <<rollovers, landed, prevRun>>
    /\ UNCHANGED <<data, lastUpdate, pc, op, locals, outcome, error, result,
                   io, console, storeAtCall, ops>>

(***************************************************************************)
(* rollover.ts: updateRollover                                             *)
(***************************************************************************)
\* rows.findIndex(row => Month, Year and Expense equal the entry's), 0-based
FindIndex_Zero(allRollovers, entry) ==
    LET hits == {i \in DOMAIN allRollovers :
                    /\ Get(allRollovers[i], "Month") = entry.Month
                    /\ Get(allRollovers[i], "Year") = entry.Year
                    /\ Get(allRollovers[i], "Expense") = entry.Expense}
    IN  IF hits = {} THEN 0 ELSE Min(hits) - 1
FindIndex_Last(allRollovers, entry) ==
    LET hits == {i \in DOMAIN allRollovers :
                    /\ Get(allRollovers[i], "Month") = entry.Month
                    /\ Get(allRollovers[i], "Year") = entry.Year
                    /\ Get(allRollovers[i], "Expense") = entry.Expense}
    IN  IF hits = {} THEN -1 ELSE Max(hits) - 1
FindIndex(allRollovers, entry) ==
    LET hits == {i \in DOMAIN allRollovers :
                    /\ Get(allRollovers[i], "Month") = entry.Month
                    /\ Get(allRollovers[i], "Year") = entry.Year
                    /\ Get(allRollovers[i], "Expense") = entry.Expense}
    IN  IF hits = {} THEN -1 ELSE Min(hits) - 1

URCall(entry) ==
    /\ pc = "idle"
    /\ ops < MaxOps
    /\ ops' = ops + 1
    /\ op' = [name |-> "updateRollover", month |-> entry.Month,
              year |-> entry.Year, expense |-> entry.Expense, entry |-> entry]
    /\ pc' = "ur_read"
    /\ storeAtCall' = rollovers
    /\ landed' = <<>>
    /\ outcome' = "none"
    /\ error' = ""
    /\ io' = <<>>
    /\ ownWrite' = "none"
    /\ failed' = <<>>
    /\ console' = <<>>
    /\ UNCHANGED <<rollovers, data, lastUpdate, pendingWrites, locals, result,
                   prevRun>>

\* TableRows$('Rollovers').pipe(toArray(), switchMap(rows => findIndex ...))
URRead ==
    /\ pc = "ur_read"
    /\ io' = Append(io, "read Rollovers")
    /\ \/ LET found == FindIndex(TableRows(RolloverHeaders, rollovers), op.entry)
          IN  IF found = -1
              THEN /\ console' = Append(console,
                                        "No matching row found to update.")
                   /\ Reject("No matching row found.")
                   /\ UNCHANGED <<rowIndex, failed>>
              ELSE /\ rowIndex' = found
                   /\ pc' = "ur_write"
                   /\ UNCHANGED <<console, outcome, error, failed>>
       \/ /\ Fail("read Rollovers")
          /\ UNCHANGED <<console, rowIndex>>
    /\ UNCHANGED <<rollovers, data, lastUpdate, pendingWrites, op, expenses,
                   ei, month, year, loopLimit, rolloverMap, updates,
                   newEntries, result, storeAtCall, landed, prevRun, ops,
                   ownWrite>>

\* from(UpdateTableRow('Rollovers', rowIndex, entry))
URWrite ==
    /\ pc = "ur_write"
    /\ io' = Append(io, "update Rollovers")
    /\ \/ /\ rowIndex + 1 \in DOMAIN rollovers
          /\ rollovers' = [rollovers EXCEPT ![rowIndex + 1] =
                              UpdatedValues(RolloverHeaders, op.entry)]
          /\ prevRun' = [prevRun EXCEPT !.valid = FALSE]
          /\ pc' = "done"
          /\ outcome' = "resolved"
          /\ UNCHANGED <<error, failed>>
       \/ /\ Fail("update Rollovers")
          /\ UNCHANGED <<rollovers, prevRun>>
    /\ UNCHANGED <<data, lastUpdate, pendingWrites, op, locals, result,
                   console, storeAtCall, landed, ops, ownWrite>>

(***************************************************************************)
(* lookups.ts: getBudget as an operation of its own                        *)
(***************************************************************************)
GBCall(e, m, y) ==
    /\ pc = "idle"
    /\ ops < MaxOps
    /\ ops' = ops + 1
    /\ op' = [name |-> "getBudget", month |-> m, year |-> y, expense |-> e,
              entry |-> NoEntry]
    /\ pc' = "gb_read"
    /\ storeAtCall' = rollovers
    /\ landed' = <<>>
    /\ outcome' = "none"
    /\ error' = ""
    /\ io' = <<>>
    /\ ownWrite' = "none"
    /\ failed' = <<>>
    /\ console' = <<>>
    /\ UNCHANGED <<rollovers, data, lastUpdate, pendingWrites, locals, result,
                   prevRun>>

\* the reads of getBudget and its resolution; the budget is carried in the
\* EOM field of result
GBRead ==
    /\ pc = "gb_read"
    /\ LET reads == IF op.month # 0 /\ op.year # 0
                    THEN BudgetReads(op.expense, op.month, op.year)
                    ELSE <<"read ExpenseData">>
       IN  /\ io' = io \o reads
           /\ \/ /\ result' = [NoEntry EXCEPT
                                  !.EOM = getBudget(op.expense, op.month, op.year)]
                 /\ pc' = "done"
                 /\ outcome' = "resolved"
                 /\ UNCHANGED <<error, failed>>
              \/ /\ \E r \in Range(reads) : Fail(r)
                 /\ UNCHANGED result
    /\ UNCHANGED <<rollovers, data, lastUpdate, pendingWrites, op, locals,
                   console, storeAtCall, landed, prevRun, ops, ownWrite>>

\* the caller has the outcome; the locals of the call are gone
Return ==
    /\ pc = "done"
    /\ pc' = "idle"
    /\ prevRun' =
          IF op.name = "resetRollover"
          THEN [valid |-> outcome = "resolved" /\ landed = <<>>,
                month |-> op.month, year |-> op.year, expense |-> op.expense]
          ELSE prevRun
    /\ op' = NoOp
    /\ expenses' = <<>>
    /\ ei' = 0
    /\ month' = 0
    /\ year' = 0
    /\ loopLimit' = 0
    /\ rolloverMap' = <<>>
    /\ updates' = <<>>
    /\ newEntries' = <<>>
    /\ rowIndex' = -1
    /\ outcome' = "none"
    /\ error' = ""
    /\ result' = NoEntry
    /\ io' = <<>>
    /\ ownWrite' = "none"
    /\ failed' = <<>>
    /\ console' = <<>>
    /\ storeAtCall' = rollovers
    /\ landed' = <<>>
    /\ UNCHANGED <<rollovers, data, lastUpdate, pendingWrites, ops>>

Next ==
    \/ \E s \in StartSet, e \in Categories \cup {NullExpense} :
          RRCall(s[1], s[2], e)
    \/ RRList
    \/ RRFetch
    \/ RRFor
    \/ RRWhile
    \/ RRUpdate
    \/ RRInsert
    \/ RRStamp
    \/ \E k \in GetSet : GRCall(k[1], k[2], k[3])
    \/ GRRead
    \/ GRNew
    \/ ApplyPending
    \/ \E entry \in UpdateSet : URCall(entry)
    \/ URRead
    \/ URWrite
    \/ Return

Spec == Init /\ [][Next]_vars

\* the budget lookups alone, over every category, month and year
BudgetMonths == 0..13
BudgetYears == {2022, 2023}

NextBudget ==
    \/ \E e \in Categories, m \in BudgetMonths, y \in BudgetYears : GBCall(e, m, y)
    \/ GBRead
    \/ Return

SpecBudget == Init /\ [][NextBudget]_vars

\* resetRollover alone, over walks of 24 months and over a walk that starts
\* in a January
WalkStartSet == {<<3, 2021>>, <<1, 2023>>}

NextWalk ==
    \/ \E s \in WalkStartSet, e \in Categories \cup {NullExpense} :
          RRCall(s[1], s[2], e)
    \/ RRList
    \/ RRFetch
    \/ RRFor
    \/ RRWhile
    \/ RRUpdate
    \/ RRInsert
    \/ RRStamp
    \/ Return

SpecWalk == Init /\ [][NextWalk]_vars

\* one resetRollover on a fresh workbook: walks longer than the loop limit
\* (25 months from 2/2021 to 2/2023), of exactly the limit, short ones and a
\* future start; a store that holds records of the current month, and a
\* category list in the opposite order
RunStartSet == {<<2, 2021>>, <<3, 2021>>, <<12, 2022>>, <<1, 2023>>,
                <<3, 2023>>}

LongStore ==
    << <<1, 2021, "A", 0, 0, 6>>, <<2, 2023, "A", 5, 5, 5>>,
       <<2, 2023, "B", 6, 6, 6>>, <<3, 2021, "B", 0, 0, 2>>,
       <<11, 2020, "B", 0, 0, 3>>, <<3, 2023, "B", 8, 8, 8>> >>

RunRolloversSet == RolloversSet \cup {LongStore}

ReversedExpenseData ==
      << <<"B", NumStr(20), Num(0)>>, <<"A", Num(10), Num(1)>> >>

RunDataSet ==
    DataSet \cup {<<FullTransactions, ReversedExpenseData, FullBudgetHistory>>}

InitRun == InitOf(RunRolloversSet, RunDataSet)

NextRun ==
    \/ \E s \in RunStartSet, e \in Categories \cup {NullExpense} :
          ops = 0 /\ RRCall(s[1], s[2], e)
    \/ RRList
    \/ RRFetch
    \/ RRFor
    \/ RRWhile
    \/ RRUpdate
    \/ RRInsert
    \/ RRStamp
    \/ Return

SpecRun == InitRun /\ [][NextRun]_vars

TypeOK == pc \in {"idle", "rr_list", "rr_fetch", "rr_for", "rr_while",
                  "rr_update", "rr_insert", "rr_stamp", "gr_read", "gr_new",
                  "ur_read", "ur_write", "gb_read", "done"}

(***************************************************************************)
(* Vocabulary of the properties, stated on the raw tables                  *)
(***************************************************************************)
InReset == op.name = "resetRollover"
InGet == op.name = "getRollover"

\* the records the running resetRollover has queued, as updates or inserts
QueuedUpdates == {updates[i].data : i \in DOMAIN updates}
QueuedInserts == Range(newEntries)
Queued == QueuedUpdates \cup QueuedInserts

\* r is the period right after q, of the same category
Follows(q, r) ==
    /\ r.Expense = q.Expense
    /\ \/ q.Month = 12 /\ r.Month = 1 /\ r.Year = q.Year + 1
       \/ q.Month < 12 /\ r.Month = q.Month + 1 /\ r.Year = q.Year

\* (startYear, startMonth) of the running call is strictly after today
StartIsFuture ==
    op.year > today.year \/ (op.year = today.year /\ op.month > today.month)

CellIsNumeric(cell) == cell.t \in {"number", "numeric string"}
CellValue(cell) == IF CellIsNumeric(cell) THEN cell.n ELSE 0

LinearIndex(m, y) == y * 12 + m - 1

\* the BudgetHistory rows of category c whose inclusive range contains (m, y)
HistoryCovering(c, m, y) ==
    {i \in DOMAIN budgetHistory :
        LET row == budgetHistory[i]
        IN  /\ row[1] = c
            /\ \A j \in 2..5 : CellIsNumeric(row[j])
            /\ row[2].n \in 1..12
            /\ row[4].n \in 1..12
            /\ LinearIndex(row[2].n, row[3].n) <= LinearIndex(m, y)
            /\ LinearIndex(m, y) <= LinearIndex(row[4].n, row[5].n)}

HistoryStart(i) == LinearIndex(budgetHistory[i][2].n, budgetHistory[i][3].n)

\* DefaultBudget of category c; 0 for a category ExpenseData does not define
DefaultBudget(c) ==
    LET defs == {i \in DOMAIN expenseData : expenseData[i][1] = c}
    IN  IF defs = {} THEN 0 ELSE CellValue(expenseData[CHOOSE i \in defs : TRUE][2])

\* InitialBalance of category c
InitialBalance(c) ==
    LET defs == {i \in DOMAIN expenseData : expenseData[i][1] = c}
    IN  IF defs = {} THEN 0 ELSE CellValue(expenseData[CHOOSE i \in defs : TRUE][3])

\* the amounts the effective budget of (c, m, y) may be
EffectiveBudgets(c, m, y) ==
    LET cover == HistoryCovering(c, m, y)
    IN  IF cover = {} THEN {DefaultBudget(c)}
        ELSE {CellValue(budgetHistory[i][6]) :
                i \in {k \in cover : \A l \in cover : HistoryStart(l) <= HistoryStart(k)}}

\* sum of Amount over the Transactions rows of month m, year y, category c
RECURSIVE SpendUpTo(_, _, _, _)
SpendUpTo(n, m, y, c) ==
    IF n = 0 THEN 0
    ELSE SpendUpTo(n - 1, m, y, c)
         + (IF transactions[n][1] = m /\ transactions[n][2] = y
               /\ transactions[n][3] = c
            THEN transactions[n][4] ELSE 0)
PeriodSpend(m, y, c) == SpendUpTo(Len(transactions), m, y, c)

IsRead(call) == call \in {"read Rollovers", "read Transactions",
                          "read ExpenseData", "read BudgetHistory",
                          "read Expenses"}
IsWrite(call) == call \in {"update Rollovers", "insert Rollovers"}

\* rows of table rows with the key (m, y, c)
RowsOfKey(rows, m, y, c) ==
    {i \in DOMAIN rows : rows[i][1] = m /\ rows[i][2] = y /\ rows[i][3] = c}

InUpdate == op.name = "updateRollover"

\* the period record a Rollovers row holds
RecordOfRow(row) ==
    [Month |-> row[1], Year |-> row[2], Expense |-> row[3],
     Expenses |-> row[4], BOM |-> row[5], EOM |-> row[6]]

\* the Rollovers row of a period record
RowOfRecord(r) == <<r.Month, r.Year, r.Expense, r.Expenses, r.BOM, r.EOM>>

\* how many times the storage call was issued in the log
Count(log, call) == Cardinality({i \in DOMAIN log : log[i] = call})

(***************************************************************************)
(* C1: within one resetRollover run, for every category and every two      *)
(* consecutive months the walk has processed, the OpeningBalance queued    *)
(* for the later month equals the ClosingBalance queued for the earlier    *)
(* one, whether the earlier month was an update or an insert.              *)
(***************************************************************************)
C1_OpeningIsPreviousClosing ==
    InReset =>
        \A q \in Queued : \A r \in Queued : Follows(q, r) => r.BOM = q.EOM

\* an update feeds an insert and an insert feeds an insert, with a closing
\* balance that differs from the initial balance
C1_Witness ==
    /\ InReset
    /\ \E q \in QueuedUpdates : \E r \in QueuedInserts :
          Follows(q, r) /\ q.EOM # InitialBalance(q.Expense)
    /\ \E q \in QueuedInserts : \E r \in QueuedInserts :
          Follows(q, r) /\ q.EOM # InitialBalance(q.Expense)

(***************************************************************************)
(* C2: every record resetRollover queues satisfies ClosingBalance =        *)
(* OpeningBalance + EffectiveBudget + PeriodSpend, the effective budget    *)
(* being the history amount of the period or else the DefaultBudget.       *)
(***************************************************************************)
C2_ClosingBalanceEquation ==
    InReset =>
        \A q \in Queued :
            \E b \in EffectiveBudgets(q.Expense, q.Month, q.Year) :
                q.EOM = q.BOM + b + q.Expenses

\* a queued update and a queued insert with non-zero budget and spend
C2_Witness ==
    /\ InReset
    /\ \E q \in QueuedUpdates : q.Expenses # 0 /\ q.EOM # q.BOM + q.Expenses
    /\ \E q \in QueuedInserts : q.Expenses # 0 /\ q.EOM # q.BOM + q.Expenses

(***************************************************************************)
(* C3: for every category and every month 1..12 of a year, the effective   *)
(* budget (resetRollover's in-memory resolver and lookups' getBudget) is   *)
(* the DefaultBudget when no history entry's inclusive range contains the  *)
(* month, else the Amount of a containing entry with the greatest start.   *)
(***************************************************************************)
InBudget == op.name = "getBudget" /\ pc = "done" /\ outcome = "resolved"

C3_EffectiveBudget ==
    (InBudget /\ op.month \in 1..12) =>
        /\ result.EOM \in EffectiveBudgets(op.expense, op.month, op.year)
        /\ getBudgetInMemory(op.expense, op.month, op.year)
              \in EffectiveBudgets(op.expense, op.month, op.year)

\* a month that two history entries with different starts and amounts
\* contain, the later-starting one later in the table
C3_Witness ==
    /\ InBudget
    /\ op.month \in 1..12
    /\ \E i \in HistoryCovering(op.expense, op.month, op.year) :
          \E j \in HistoryCovering(op.expense, op.month, op.year) :
              /\ HistoryStart(i) < HistoryStart(j)
              /\ i < j
              /\ budgetHistory[i][6] # budgetHistory[j][6]

(***************************************************************************)
(* C4: a resetRollover run that follows a successful run with the same     *)
(* arguments, with nothing else written in between, queues no insert and   *)
(* leaves every record's ClosingBalance as the first run left it.          *)
(***************************************************************************)
SecondRun ==
    /\ InReset
    /\ prevRun.valid
    /\ prevRun.month = op.month
    /\ prevRun.year = op.year
    /\ prevRun.expense = op.expense
    /\ landed = <<>>

C4_Idempotent ==
    SecondRun =>
        /\ newEntries = <<>>
        /\ Len(rollovers) = Len(storeAtCall)
        /\ \A i \in DOMAIN rollovers : rollovers[i][6] = storeAtCall[i][6]
        /\ \A i \in DOMAIN updates :
              /\ updates[i].rowIndex + 1 \in DOMAIN storeAtCall
              /\ updates[i].data.EOM = storeAtCall[updates[i].rowIndex + 1][6]

\* the second run has completed and has written at least two chained updates
C4_Witness ==
    /\ SecondRun
    /\ pc = "done"
    /\ outcome = "resolved"
    /\ "update Rollovers" \in Range(io)
    /\ \E q \in QueuedUpdates : \E r \in QueuedUpdates :
          Follows(q, r) /\ r.BOM # InitialBalance(r.Expense)

(***************************************************************************)
(* C5: a resetRollover whose start is strictly after the current month     *)
(* issues no batched update and no batched insert; the persisted records   *)
(* are those of before the call.                                           *)
(***************************************************************************)
C5_FutureStartWritesNothing ==
    (InReset /\ StartIsFuture) =>
        /\ \A i \in DOMAIN io : ~IsWrite(io[i])
        /\ updates = <<>>
        /\ newEntries = <<>>
        /\ rollovers = storeAtCall \o landed

\* a future-start run over a non-empty store has ended
C5_Witness ==
    /\ InReset
    /\ StartIsFuture
    /\ pc = "done"
    /\ rollovers # <<>>

(***************************************************************************)
(* C6: a resetRollover whose start is strictly after the current month     *)
(* issues no storage read at all.                                          *)
(***************************************************************************)
C6_FutureStartReadsNothing ==
    (InReset /\ StartIsFuture) => \A i \in DOMAIN io : ~IsRead(io[i])

(***************************************************************************)
(* C7: a resetRollover whose start is strictly after the current month     *)
(* ends in an error delivered to the caller, not in a normal return.       *)
(***************************************************************************)
C7_FutureStartRejects ==
    (InReset /\ StartIsFuture /\ pc = "done") => outcome = "rejected"

(***************************************************************************)
(* C8: resetRollover with a category c queues records of c only and        *)
(* leaves the persisted records of the other categories unchanged; with    *)
(* category null its walk covers every category of the category list.      *)
(***************************************************************************)
C8_CategoryFrame ==
    /\ (InReset /\ op.expense # NullExpense) =>
          /\ \A q \in Queued : q.Expense = op.expense
          /\ \A i \in DOMAIN storeAtCall :
                storeAtCall[i][3] # op.expense =>
                    (i \in DOMAIN rollovers /\ rollovers[i] = storeAtCall[i])
    /\ (InReset /\ op.expense = NullExpense
        /\ pc \in {"rr_update", "rr_insert", "rr_stamp"}) =>
          {q.Expense : q \in Queued} = {expenseData[i][1] : i \in DOMAIN expenseData}

\* a single-category run has written updates while the store holds records
\* of another category
C8_Witness ==
    /\ InReset
    /\ op.expense # NullExpense
    /\ pc = "done"
    /\ "update Rollovers" \in Range(io)
    /\ "insert Rollovers" \in Range(io)
    /\ \E i \in DOMAIN storeAtCall : storeAtCall[i][3] # op.expense

(***************************************************************************)
(* C9: getRollover for a key without a persisted record issues the insert  *)
(* of exactly one record, of that key, and returns it; its OpeningBalance  *)
(* and ClosingBalance are the category's InitialBalance, whatever the      *)
(* previous month's record and the budget are.                             *)
(***************************************************************************)
NoRecordForKey ==
    RowsOfKey(storeAtCall \o landed, op.month, op.year, op.expense) = {}

\* the step in which such a getRollover resolves
ResolvesNewRecord ==
    /\ InGet
    /\ pc # "done"
    /\ pc' = "done"
    /\ outcome' = "resolved"
    /\ NoRecordForKey

C10_NewRecordSpend ==
    (InGet /\ pc = "done" /\ outcome = "resolved" /\ NoRecordForKey) =>
        result.Expenses = PeriodSpend(op.month, op.year, op.expense)

(***************************************************************************)
(* C11: getRollover for a key with one or more persisted records returns   *)
(* the first such record in row order and writes nothing: no insert or     *)
(* update is issued or left in flight and the rows stay as they are,       *)
(* duplicates included.                                                    *)
(***************************************************************************)
\* the step in which getRollover has read a store that holds the key
ReadsExistingRecord ==
    /\ InGet
    /\ pc = "gr_read"
    /\ pc' # "gr_read"
    /\ failed' = failed
    /\ RowsOfKey(rollovers, op.month, op.year, op.expense) # {}

C11_ExistingRecordReturned ==
    [][ReadsExistingRecord =>
          /\ pc' = "done"
          /\ outcome' = "resolved"
          /\ result' = RecordOfRow(
                rollovers[Min(RowsOfKey(rollovers, op.month, op.year,
                                        op.expense))])
          /\ \A i \in DOMAIN io' : ~IsWrite(io'[i])
          /\ pendingWrites' = pendingWrites
          /\ ownWrite' = "none"
          /\ rollovers' = rollovers]_vars

\* getRollover has returned from a store with two different records of
\* the key, and both are still there
C11_Witness ==
    /\ InGet
    /\ pc = "done"
    /\ outcome = "resolved"
    /\ io = <<"read Rollovers">>
    /\ \E i \in RowsOfKey(rollovers, op.month, op.year, op.expense) :
          \E j \in RowsOfKey(rollovers, op.month, op.year, op.expense) :
              i < j /\ rollovers[i] # rollovers[j]
                    /\ result = RecordOfRow(rollovers[i])

(***************************************************************************)
(* C12: a storage failure during getRollover (of the read of the persisted *)
(* records, of the reads for the new record, or of the insert of the new   *)
(* record) makes the call fail with that error; getRollover has not        *)
(* returned a record when one of its storage calls has failed.             *)
(***************************************************************************)
C12_StorageFailureFails ==
    (InGet /\ failed # <<>>) =>
        /\ outcome = "rejected"
        /\ error \in Range(failed)

(***************************************************************************)
(* C13: updateRollover(record) on a store without a row of the record's    *)
(* (Month, Year, Category) fails with the "no matching row" error and      *)
(* issues no write: no row is overwritten and none is inserted.            *)
(***************************************************************************)
\* the rows of the key of the record updateRollover was given
RowsOfEntry(rows) ==
    RowsOfKey(rows, op.entry.Month, op.entry.Year, op.entry.Expense)

\* the step in which updateRollover has read a store that lacks the key
FindsNoRow ==
    /\ InUpdate
    /\ pc = "ur_read"
    /\ pc' # "ur_read"
    /\ failed' = failed
    /\ RowsOfEntry(rollovers) = {}

C13_NoMatchRejects ==
    /\ [][FindsNoRow =>
             /\ pc' = "done"
             /\ outcome' = "rejected"
             /\ error' = "No matching row found."
             /\ rollovers' = rollovers
             /\ pendingWrites' = pendingWrites]_vars
    /\ []((InUpdate /\ error = "No matching row found.") =>
             /\ \A i \in DOMAIN io : ~IsWrite(io[i])
             /\ rollovers = storeAtCall \o landed)

\* updateRollover has been rejected on a store that holds other records
C13_Witness ==
    /\ InUpdate
    /\ pc = "done"
    /\ outcome = "rejected"
    /\ error = "No matching row found."
    /\ RowsOfEntry(rollovers) = {}
    /\ rollovers # <<>>

(***************************************************************************)
(* C14: a successful updateRollover(record) overwrites exactly one row,    *)
(* the one at the position of the first row whose (Month, Year, Category)  *)
(* is the record's, with the record; every other row and the number of    *)
(* rows are unchanged.                                                     *)
(***************************************************************************)
\* the step in which updateRollover's write succeeds
WritesRow ==
    /\ InUpdate
    /\ pc = "ur_write"
    /\ outcome' = "resolved"

C14_OverwritesFirstMatch ==
    [][WritesRow =>
          /\ RowsOfEntry(rollovers) # {}
          /\ Len(rollovers') = Len(rollovers)
          /\ \A i \in DOMAIN rollovers :
                rollovers'[i] = IF i = Min(RowsOfEntry(rollovers))
                                THEN RowOfRecord(op.entry)
                                ELSE rollovers[i]
          /\ Count(io', "update Rollovers") = 1
          /\ Count(io', "insert Rollovers") = 0
          /\ pendingWrites' = pendingWrites]_vars

\* the store held two rows of the key; the first now holds the record
\* and the second is as it was
C14_Witness ==
    /\ InUpdate
    /\ pc = "done"
    /\ outcome = "resolved"
    /\ \E i \in RowsOfEntry(storeAtCall) : \E j \in RowsOfEntry(storeAtCall) :
          /\ i < j
          /\ rollovers[i] = RowOfRecord(op.entry)
          /\ rollovers[i] # storeAtCall[i]
          /\ rollovers[j] = storeAtCall[j]
          /\ rollovers[j] # rollovers[i]

(***************************************************************************)
(* Vocabulary of the storage calls of one resetRollover run                *)
(***************************************************************************)
\* the reads getExpenseList issued, which come first in the log of a run
\* called with category null
ListLen ==
    IF op.expense # NullExpense THEN 0
    ELSE IF "read Expenses" \in Range(io) THEN 2
    ELSE Min({1, Len(io)})

\* the log of the run after the category list was read
AfterList == SubSeq(io, ListLen + 1, Len(io))

FourBulkReads == {"read Rollovers", "read Transactions", "read ExpenseData",
                  "read BudgetHistory"}

\* the run is in the forward walk of some category
Walking == InReset /\ pc \in {"rr_for", "rr_while"}

\* the forward walks of all categories have finished
WalksFinished == InReset /\ ei > Len(expenses)

StampCall == "set LastRolloverUpdate"

\* position of the first issue of the call in the log, 0 when not issued
FirstIssue(log, call) ==
    IF call \in Range(log) THEN Min({i \in DOMAIN log : log[i] = call}) ELSE 0

(***************************************************************************)
(* C15: in one resetRollover run each of the four bulk reads (Rollovers,   *)
(* Transactions, ExpenseData, BudgetHistory) is issued exactly once,       *)
(* before the first step of any category's walk, and no step from the      *)
(* first step of the first walk to the last step of the last walk issues   *)
(* a storage read or write.                                                *)
(***************************************************************************)
C15_BulkReadsOnce ==
    /\ [](InReset =>
             /\ \A r \in FourBulkReads : Count(AfterList, r) <= 1
             /\ (Walking \/ WalksFinished \/ outcome = "resolved") =>
                   /\ Len(AfterList) >= 4
                   /\ \A r \in FourBulkReads :
                         /\ Count(AfterList, r) = 1
                         /\ FirstIssue(AfterList, r) \in 1..4
             /\ Walking => Len(AfterList) = 4)
    /\ [][Walking => io' = io /\ rollovers' \in {rollovers} \cup
                          {rollovers \o w : w \in Range(pendingWrites)}]_vars

\* a run over two categories and several months each has ended
C15_Witness ==
    /\ InReset
    /\ pc = "done"
    /\ outcome = "resolved"
    /\ Len(expenses) = 2
    /\ \A c \in Range(expenses) :
          Cardinality({q \in Queued : q.Expense = c}) >= 2

(***************************************************************************)
(* C16: one resetRollover run issues at most one batched update and at     *)
(* most one batched insert, each only with a non-empty queue and only      *)
(* after the walks of all categories have finished; a run that reaches     *)
(* the write of a non-empty queue issues it, and the insert is issued      *)
(* only after the update, if any, has succeeded.                           *)
(***************************************************************************)
C16_BatchedWrites ==
    InReset =>
        /\ Count(io, "update Rollovers") <= 1
        /\ Count(io, "insert Rollovers") <= 1
        /\ (\E i \in DOMAIN io : IsWrite(io[i])) =>
              (WalksFinished /\ pc \in {"rr_insert", "rr_stamp", "done"})
        /\ "update Rollovers" \in Range(io) => updates # <<>>
        /\ "insert Rollovers" \in Range(io) => newEntries # <<>>
        /\ (WalksFinished /\ pc \in {"rr_insert", "rr_stamp", "done"}) =>
              (updates # <<>> => "update Rollovers" \in Range(io))
        /\ (WalksFinished /\ pc \in {"rr_stamp", "done"}
            /\ "update Rollovers" \notin Range(failed)) =>
              (newEntries # <<>> => "insert Rollovers" \in Range(io))
        /\ "insert Rollovers" \in Range(io) =>
              /\ "update Rollovers" \notin Range(failed)
              /\ FirstIssue(io, "update Rollovers")
                    < FirstIssue(io, "insert Rollovers")

\* a run has issued the update and then the insert
C16_Witness ==
    /\ InReset
    /\ pc = "done"
    /\ Len(updates) >= 2
    /\ Len(newEntries) >= 2
    /\ 0 < FirstIssue(io, "update Rollovers")
    /\ FirstIssue(io, "update Rollovers") < FirstIssue(io, "insert Rollovers")

StoreOfRun == storeAtCall \o landed

\* the rows the queued updates address
UpdatedRows == {updates[k].rowIndex + 1 : k \in DOMAIN updates}

C18_PartialWrite ==
    InReset =>
        /\ "insert Rollovers" \in Range(failed) =>
              /\ pc = "done"
              /\ outcome = "rejected"
              /\ error = "insert Rollovers"
              /\ Count(io, "insert Rollovers") = 1
              /\ Count(io, "update Rollovers") = IF updates = <<>> THEN 0 ELSE 1
              /\ StampCall \notin Range(io)
              /\ Len(rollovers) = Len(StoreOfRun)
              /\ \A k \in DOMAIN updates :
                    rollovers[updates[k].rowIndex + 1]
                        = RowOfRecord(updates[k].data)
              /\ \A i \in DOMAIN rollovers \ UpdatedRows :
                    rollovers[i] = StoreOfRun[i]
        /\ "update Rollovers" \in Range(failed) =>
              /\ pc = "done"
              /\ outcome = "rejected"
              /\ error = "update Rollovers"
              /\ Count(io, "update Rollovers") = 1
              /\ Count(io, "insert Rollovers") = 0
              /\ StampCall \notin Range(io)

\* the update has changed rows and the insert of a non-empty queue failed
C18_Witness ==
    /\ InReset
    /\ pc = "done"
    /\ failed = <<"insert Rollovers">>
    /\ "update Rollovers" \in Range(io)
    /\ newEntries # <<>>
    /\ \E i \in UpdatedRows : rollovers[i] # StoreOfRun[i]

(***************************************************************************)
(* C19: the budget-history resolver gives a result for every history and   *)
(* every target; an entry with a missing or non-numeric range field, or    *)
(* with a start or end month outside 1..12, is neither selected nor among  *)
(* the matches, and the result is that of the history without the entry.   *)
(***************************************************************************)
\* the four range cells of the BudgetHistory row are numeric and its start
\* and end months are months
ValidRange(row) ==
    /\ \A j \in 2..5 : CellIsNumeric(row[j])
    /\ row[2].n \in 1..12
    /\ row[4].n \in 1..12

SkippedEntries == {i \in DOMAIN budgetHistory : ~ValidRange(budgetHistory[i])}

\* the sequence without its element i, and where element k of the
\* sequence is found in it
Without(seq, i) == SubSeq(seq, 1, i - 1) \o SubSeq(seq, i + 1, Len(seq))
PositionWithout(k, i) == IF k > i THEN k - 1 ELSE k

C19_InvalidEntriesSkipped ==
    op.name = "getBudget" =>
        LET history == TableRows(BudgetHistoryHeaders, budgetHistory)
            sel == selectBudgetHistoryEntry(history, op.expense, op.month,
                                            op.year)
        IN  /\ sel.entry \in 0..Len(history)
            /\ sel.entry \notin SkippedEntries
            /\ \A j \in DOMAIN sel.matches : sel.matches[j] \notin SkippedEntries
            /\ (sel.entry = 0) = (sel.matches = <<>>)
            /\ \A i \in SkippedEntries :
                  LET rest == selectBudgetHistoryEntry(
                                 Without(history, i), op.expense, op.month,
                                 op.year)
                  IN  /\ rest.entry = IF sel.entry = 0 THEN 0
                                      ELSE PositionWithout(sel.entry, i)
                      /\ rest.matches = [j \in DOMAIN sel.matches |->
                                           PositionWithout(sel.matches[j], i)]

\* an entry is selected for a category that has skipped entries before and
\* after it in the table
C19_Witness ==
    /\ InBudget
    /\ LET sel == selectBudgetHistoryEntry(
                     TableRows(BudgetHistoryHeaders, budgetHistory),
                     op.expense, op.month, op.year)
       IN  /\ sel.entry # 0
           /\ \E i \in SkippedEntries : \E j \in SkippedEntries :
                 /\ i < sel.entry
                 /\ sel.entry < j
                 /\ budgetHistory[i][1] = op.expense
                 /\ budgetHistory[j][1] = op.expense
                 /\ ~CellIsNumeric(budgetHistory[j][4])
                 /\ budgetHistory[i][2].n \notin 1..12

(***************************************************************************)
(* C20: for a start month in 1..12 and a start at most 24 months before    *)
(* the current month, counted inclusively, a successful resetRollover      *)
(* leaves a record of every selected category for every month from the     *)
(* start through the current month; the walk visits these months one by    *)
(* one in increasing order, from December of y to January of y + 1, and    *)
(* takes December of y - 1 as the month before January of y.               *)
(***************************************************************************)
MonthOf(index) == (index % 12) + 1
YearOf(index) == index \div 12

\* the months from the start of the running call through the current month
MonthsOfRun ==
    LinearIndex(op.month, op.year) .. LinearIndex(today.month, today.year)

\* a walk step: the loop body runs for (month, year) of category expenses[ei]
WalkStep == InReset /\ pc = "rr_while" /\ pc' = "rr_while"

\* the record the step queues
QueuedInStep ==
    IF Len(updates') > Len(updates) THEN updates'[Len(updates')].data
    ELSE newEntries'[Len(newEntries')]

C20_WalkCoversEveryMonth ==
    /\ []((InReset /\ pc = "done" /\ outcome = "resolved"
           /\ op.month \in 1..12 /\ Cardinality(MonthsOfRun) <= 24) =>
             \A c \in Range(expenses) : \A k \in MonthsOfRun :
                 RowsOfKey(rollovers, MonthOf(k), YearOf(k), c) # {})
    /\ [][(InReset /\ pc = "rr_for" /\ pc' = "rr_while") =>
             (month' = op.month /\ year' = op.year)]_vars
    /\ [][WalkStep =>
             /\ Len(updates') + Len(newEntries')
                   = Len(updates) + Len(newEntries) + 1
             /\ QueuedInStep.Month = month
             /\ QueuedInStep.Year = year
             /\ QueuedInStep.Expense = expenses[ei]
             /\ LinearIndex(month', year') = LinearIndex(month, year) + 1
             /\ month' \in 1..12
             /\ month = 12 => (month' = 1 /\ year' = year + 1)
             /\ month = 1 =>
                   QueuedInStep.BOM =
                      IF <<12, year - 1, expenses[ei]>> \in DOMAIN rolloverMap
                      THEN rolloverMap[<<12, year - 1, expenses[ei]>>].entry.EOM
                      ELSE InitialBalance(expenses[ei])]_vars

\* a run of 24 months over two categories has ended: it passed two year
\* ends, updated the records the store held and inserted the others
C20_Witness ==
    /\ InReset
    /\ pc = "done"
    /\ outcome = "resolved"
    /\ Cardinality(MonthsOfRun) = 24
    /\ Len(expenses) = 2
    /\ updates # <<>>
    /\ Len(updates) + Len(newEntries) = 48
    /\ Len(rollovers) = Len(storeAtCall) + Len(newEntries)

\* the first month of the running call and the current month, as indexes
StartIndex == LinearIndex(op.month, op.year)
TodayIndex == LinearIndex(today.month, today.year)

\* more than LoopLimitStart months lie between the start and the current month
LongWalk == InReset /\ Cardinality(MonthsOfRun) > LoopLimitStart

\* the last month a walk of the running call can reach
LastReachable == StartIndex + LoopLimitStart - 1

\* how many records the run has queued for category c
QueuedCount(c) ==
    Cardinality({k \in DOMAIN updates : updates[k].data.Expense = c})
    + Cardinality({k \in DOMAIN newEntries : newEntries[k].Expense = c})

C22_SpendIsSumOfPeriod ==
    InReset =>
        \A q \in Queued : q.Expenses = PeriodSpend(q.Month, q.Year, q.Expense)

\* the run has queued a record that sums two transactions while the same
\* month of another year and the same month of another category have
\* transactions too, and a record of a period without transactions in a
\* month in which the other category has one
C22_Witness ==
    /\ InReset
    /\ \E q \in Queued :
          /\ q.Month = 1 /\ q.Year = 2023 /\ q.Expense = "A"
          /\ q.Expenses = -4
          /\ PeriodSpend(1, 2022, "A") # 0
          /\ PeriodSpend(1, 2023, "B") # 0
    /\ \E q \in QueuedInserts :
          /\ q.Month = 2 /\ q.Year = 2023 /\ q.Expense = "B"
          /\ q.Expenses = 0
          /\ PeriodSpend(2, 2023, "A") # 0

\* the walk step for (month, year) finds no record of the month before in
\* the in-memory ledger and opens the period with the initial balance
OpensWithInitialBalance ==
    /\ WalkStep
    /\ LET k == LinearIndex(month, year) - 1
       IN  Key(MonthOf(k), YearOf(k), expenses[ei]) \notin DOMAIN rolloverMap

\* the records of category c of a month before (m, y): persisted ones and
\* the ones the run has computed
EarlierRecords(c, m, y) ==
    {r \in {RecordOfRow(rollovers[i]) : i \in DOMAIN rollovers} \cup Queued :
        /\ r.Expense = c
        /\ LinearIndex(r.Month, r.Year) < LinearIndex(m, y)}

(***************************************************************************)
(* C23: whenever the forward walk opens a period with the category's       *)
(* InitialBalance, no record of that category exists for any earlier       *)
(* month, persisted or computed in the run; a gap (a record two or more    *)
(* months back, none for the month before) does not bring the balance back *)
(* to InitialBalance.                                                      *)
(***************************************************************************)
C23_InitialBalanceOnlyAtFirstPeriod ==
    [][OpensWithInitialBalance =>
          /\ QueuedInStep.BOM = InitialBalance(expenses[ei])
          /\ EarlierRecords(expenses[ei], month, year) = {}]_vars

\* the months a walk of the running call goes through
WalkMonths == StartIndex..Min({LastReachable, TodayIndex})

\* the (category, month) pairs the running call has visited so far
Visited ==
    {<<c, k>> \in Range(expenses) \X WalkMonths :
        \/ \E j \in 1..(ei - 1) : j <= Len(expenses) /\ expenses[j] = c
        \/ /\ ei \in DOMAIN expenses
           /\ expenses[ei] = c
           /\ pc = "rr_while"
           /\ k < LinearIndex(month, year)}

\* positions in the two queues that hold a record of (c, month index k)
UpdatesOf(c, k) ==
    {j \in DOMAIN updates :
        /\ updates[j].data.Expense = c
        /\ LinearIndex(updates[j].data.Month, updates[j].data.Year) = k}
InsertsOf(c, k) ==
    {j \in DOMAIN newEntries :
        /\ newEntries[j].Expense = c
        /\ LinearIndex(newEntries[j].Month, newEntries[j].Year) = k}

(***************************************************************************)
(* C24: every (category, month) a resetRollover run has visited is queued  *)
(* exactly once: among the updates, with the row index of a fetched record *)
(* of that key, when the fetched records hold the key, and among the       *)
(* inserts otherwise.  No queued update carries the index -1 or an index   *)
(* outside the fetched rows, and no two queued updates address one row.    *)
(***************************************************************************)
C24_QueuedExactlyOnce ==
    InReset =>
        /\ \A v \in Visited :
              LET c == v[1]
                  k == v[2]
                  rows == RowsOfKey(storeAtCall, MonthOf(k), YearOf(k), c)
              IN  /\ Cardinality(UpdatesOf(c, k)) + Cardinality(InsertsOf(c, k)) = 1
                  /\ rows # {} <=> UpdatesOf(c, k) # {}
                  /\ \A j \in UpdatesOf(c, k) : updates[j].rowIndex + 1 \in rows
        /\ \A j \in DOMAIN updates :
              /\ updates[j].rowIndex # -1
              /\ updates[j].rowIndex + 1 \in DOMAIN storeAtCall
        /\ \A j, l \in DOMAIN updates :
              updates[j].rowIndex = updates[l].rowIndex => j = l
        /\ Len(updates) + Len(newEntries) = Cardinality(Visited)

\* the walks of two categories have ended with updates and inserts queued,
\* one of the updates for a key that two fetched rows hold
C24_Witness ==
    /\ WalksFinished
    /\ Len(expenses) = 2
    /\ Len(updates) >= 2
    /\ Len(newEntries) >= 2
    /\ \E j \in DOMAIN updates :
          Cardinality(RowsOfKey(storeAtCall, updates[j].data.Month,
                                updates[j].data.Year,
                                updates[j].data.Expense)) = 2

\* the records the walk of category c computes from (m, y) on, by the steps
\* of the loop body on the in-memory ledger `map`
RECURSIVE WalkFrom(_, _, _, _, _)
WalkFrom(map, c, m, y, limit) ==
    IF NotAfterToday(m, y) /\ WithinLimit(limit)
    THEN LET entry == StepEntry(map, c, m, y)
         IN  <<entry>> \o WalkFrom(FeedForward(map, Key(m, y, c), entry), c,
                                   IF m + 1 = 13 THEN 1 ELSE m + 1,
                                   IF m + 1 = 13 THEN y + 1 ELSE y,
                                   limit - 1)
    ELSE <<>>

\* what a run for the single category c, with the start of the running
\* call, computes on the Rollovers rows `store`
SingleRunRecords(store, c) ==
    IF StartIsFuture THEN <<>>
    ELSE WalkFrom(BuildRolloverMap(TableRows(RolloverHeaders, store)), c,
                  op.month, op.year, LoopLimitStart)

\* the records the running call has queued for category c
QueuedFor(c) == {q \in Queued : q.Expense = c}

(***************************************************************************)
(* C25: the records a resetRollover run computes for a category are those  *)
(* of a run for that category alone with the same start on the same data,  *)
(* whether the run is for one category or for all, and whatever the place  *)
(* of the category in the order of iteration.                              *)
(***************************************************************************)
C25_CategoriesIndependent ==
    WalksFinished =>
        /\ \A c \in Range(expenses) :
              QueuedFor(c) = Range(SingleRunRecords(storeAtCall, c))
        /\ \A q \in Queued : q.Expense \in Range(expenses)

\* a run for all categories, B iterated before A, has ended its walks with
\* updated and inserted records of both
C25_Witness ==
    /\ WalksFinished
    /\ op.expense = NullExpense
    /\ expenses = <<"B", "A">>
    /\ \A c \in Range(expenses) :
          /\ \E j \in DOMAIN updates : updates[j].data.Expense = c
          /\ \E j \in DOMAIN newEntries : newEntries[j].Expense = c
          /\ Len(SingleRunRecords(storeAtCall, c)) >= 3

\* the fetched rows without those of months two or more before the start
FromMonthBeforeStart(store) ==
    SelectSeq(store, LAMBDA row : LinearIndex(row[1], row[2]) >= StartIndex - 1)

(***************************************************************************)
(* C26: resetRollover leaves as they were the persisted records of months  *)
(* strictly before the start and those of months after the current month;  *)
(* of the records before the start it reads only the one of the month      *)
(* immediately before the start.                                           *)
(***************************************************************************)
C26_OutsideRangeUntouched ==
    InReset =>
        /\ \A i \in DOMAIN storeAtCall :
              LinearIndex(storeAtCall[i][1], storeAtCall[i][2])
                  \notin StartIndex..TodayIndex
              => /\ i \in DOMAIN rollovers
                 /\ rollovers[i] = storeAtCall[i]
        /\ \A i \in DOMAIN rollovers \ DOMAIN storeAtCall :
              LinearIndex(rollovers[i][1], rollovers[i][2])
                  \in StartIndex..TodayIndex
        /\ WalksFinished =>
              \A c \in Range(expenses) :
                  QueuedFor(c)
                     = Range(SingleRunRecords(FromMonthBeforeStart(storeAtCall), c))

\* a run has written its updates and inserts on a store that holds a record
\* of the month before the start, whose closing balance opens the first
\* period, an older record, and a record of a month after the current one
C26_Witness ==
    /\ InReset
    /\ pc = "done"
    /\ outcome = "resolved"
    /\ "update Rollovers" \in Range(io)
    /\ "insert Rollovers" \in Range(io)
    /\ \E i \in DOMAIN storeAtCall :
          /\ LinearIndex(storeAtCall[i][1], storeAtCall[i][2]) = StartIndex - 1
          /\ storeAtCall[i][6] # InitialBalance(storeAtCall[i][3])
          /\ \E q \in Queued :
                /\ q.Expense = storeAtCall[i][3]
                /\ LinearIndex(q.Month, q.Year) = StartIndex
                /\ q.BOM = storeAtCall[i][6]
    /\ \E i \in DOMAIN storeAtCall :
          /\ LinearIndex(storeAtCall[i][1], storeAtCall[i][2]) < StartIndex - 1
          /\ storeAtCall[i][3] \in Range(expenses)
    /\ \E i \in DOMAIN storeAtCall :
          /\ LinearIndex(storeAtCall[i][1], storeAtCall[i][2]) > TodayIndex
          /\ storeAtCall[i][3] \in Range(expenses)

\* no two rows hold the same (Month, Year, Expense)
NoDuplicateKeys(rows) ==
    Cardinality({<<rows[i][1], rows[i][2], rows[i][3]>> : i \in DOMAIN rows})
        = Len(rows)

(***************************************************************************)
(* C27: when no two stored records have the same key before a              *)
(* resetRollover run, none have after the run has done its batched writes; *)
(* a sequence of runs, one after the other, with any starts and category   *)
(* arguments, keeps the keys unique.                                       *)
(***************************************************************************)
C27_UniquenessPreserved ==
    (InReset /\ NoDuplicateKeys(storeAtCall)) => NoDuplicateKeys(rollovers)

\* the second run of a sequence has updated rows and inserted rows on a
\* store to which the first run had added rows
C27_Witness ==
    /\ InReset
    /\ ops = 2
    /\ pc = "done"
    /\ outcome = "resolved"
    /\ prevRun.valid
    /\ NoDuplicateKeys(storeAtCall)
    /\ Len(storeAtCall) >= 4
    /\ "update Rollovers" \in Range(io)
    /\ "insert Rollovers" \in Range(io)
    /\ Len(rollovers) > Len(storeAtCall)
    /\ Len(expenses) = 2

\* the first row, in storage order, with the key (m, y, c)
FirstRowOfKey(rows, m, y, c) == Min(RowsOfKey(rows, m, y, c))

(***************************************************************************)
(* C28: when several persisted records have one key, getRollover,          *)
(* updateRollover and resetRollover take the same one, the first in        *)
(* storage order, as the record of the key: getRollover returns it,        *)
(* updateRollover overwrites it, and resetRollover updates its row.        *)
(***************************************************************************)
C28_FirstDuplicateEverywhere ==
    /\ (InGet /\ pc = "done" /\ outcome = "resolved"
        /\ RowsOfKey(storeAtCall, op.month, op.year, op.expense) # {}) =>
          result = RecordOfRow(storeAtCall[
                      FirstRowOfKey(storeAtCall, op.month, op.year, op.expense)])
    /\ (InUpdate /\ pc = "ur_write") =>
          rowIndex + 1 = FirstRowOfKey(rollovers, op.entry.Month,
                                       op.entry.Year, op.entry.Expense)
    /\ InReset =>
          \A j \in DOMAIN updates :
              updates[j].rowIndex + 1
                 = FirstRowOfKey(rollovers, updates[j].data.Month,
                                 updates[j].data.Year, updates[j].data.Expense)

\* rows of the key of the running getRollover
RowsOfGet(rows) == RowsOfKey(rows, op.month, op.year, op.expense)

(***************************************************************************)
(* C29: when getRollover is called for a key without a record, awaited,    *)
(* and called again for that key, the insert of the first call is applied  *)
(* before the second call reads: an insert is not in flight when           *)
(* getRollover returns, so the second call inserts nothing and the key     *)
(* never has more than one record.                                         *)
(***************************************************************************)
C29_InsertAppliedOnReturn ==
    InGet =>
        /\ (pc = "done" /\ outcome = "resolved") =>
              /\ ownWrite \in {"none", "landed"}
              /\ pendingWrites = <<>>
        /\ Cardinality(RowsOfGet(rollovers))
              <= Max({1, Cardinality(RowsOfGet(storeAtCall))})

(***************************************************************************)
(* C30: no resetRollover whose start is strictly after the current month   *)
(* persists the timestamp, whatever its category argument: a category, or  *)
(* null with any category list, the empty one included.                    *)
(***************************************************************************)
C30_FutureStartNoStamp ==
    (InReset /\ StartIsFuture) => StampCall \notin Range(io)

====
